---- MODULE Spec2Model ----
(***************************************************************************)
(* FrameVis (frame-by-frame.py): sampling of evenly spaced frames from a   *)
(* video, matte (letterbox / pillarbox) detection and the compositing of   *)
(* the sampled frames.  One call of FrameVis.visualize,                    *)
(* MatteTrimmer.determine_video_bounds or FrameVis.interval_from_nframes   *)
(* is modelled statement by statement; the pure MatteTrimmer functions are *)
(* operators, also applied on their own by the specification SpecRect.     *)
(***************************************************************************)
EXTENDS Integers, Sequences, FiniteSets, TLC

\* ------------------------------------------------------------------ bounds
\* short videos have 0..MaxFrames frames, each with its own content
MaxFrames == 3
\* decoded frames are FrameH x FrameW pixels of FrameDepth channels
FrameH == 4
FrameW == 4
FrameDepth == 2
\* determine_video_bounds is called directly with 0..MaxSamples samples
MaxSamples == 3
\* rectangles handed to the pure functions have corners in 0..MaxCoord
MaxCoord == 1
\* most frames of a video of the sampling plan's specification
MaxPlanTotal == 16
\* size of the images determine_image_bounds is applied to on its own
ProfileH == 2
ProfileW == 2

\* ------------------------------------------------------- program constants
output_width == 2160
output_height == 3840
default_concat_size == 1
default_frame_width == 2160
\* determine_video_bounds(source, 10, 3) as visualize calls it
TrimSamples == 10
TrimThreshold == 3
\* Python's None, and a local that is not assigned yet
NoneVal == -1

\* ------------------------------------------- IEEE-754 binary64 arithmetic
\* A non-negative float is <<hi, mid, lo>>, the fixed-point number
\* (hi*Limb^2 + mid*Limb + lo) / 2^FracBits holding at most Mantissa
\* significant bits.  Exact for values in [2^-7, 2^15), which covers
\* every quotient and sum the modelled calls compute.
LimbBits == 25
FracBits == 60
Mantissa == 53

RECURSIVE Pow2(_)
Pow2(e) == IF e = 0 THEN 1 ELSE 2 * Pow2(e - 1)

Limb == Pow2(LimbBits)
IntShift == Pow2(FracBits - 2 * LimbBits)

RECURSIVE BitLen(_)
BitLen(v) == IF v = 0 THEN 0 ELSE 1 + BitLen(v \div 2)

FloatBitLen(x) ==
    IF x[1] > 0 THEN 2 * LimbBits + BitLen(x[1])
    ELSE IF x[2] > 0 THEN LimbBits + BitLen(x[2])
    ELSE BitLen(x[3])

Normalise(hi, mid, lo) ==
    <<hi + (mid + lo \div Limb) \div Limb, (mid + lo \div Limb) % Limb, lo % Limb>>

\* round to nearest, ties to even; sticky: non-zero bits lie beyond lo
Round53(x, sticky) ==
    LET drop == FloatBitLen(x) - Mantissa
    IN IF drop <= 0 THEN x
       ELSE LET unit == Pow2(drop)
                rem == x[3] % unit
                odd == (x[3] \div unit) % 2 = 1
                up == rem > unit \div 2 \/ (rem = unit \div 2 /\ (sticky \/ odd))
            IN Normalise(x[1], x[2], x[3] - rem + (IF up THEN unit ELSE 0))

\* nb further quotient bits of r / b and the remainder left
RECURSIVE DivBits(_, _, _)
DivBits(r, b, nb) ==
    IF nb = 0 THEN <<0, r>>
    ELSE LET p == DivBits(r, b, nb - 1)
         IN <<2 * p[1] + (2 * p[2]) \div b, (2 * p[2]) % b>>

\* a / b, Python true division of the non-negative integers a and b >= 1
FloatDiv(a, b) ==
    LET d1 == DivBits(a % b, b, FracBits - 2 * LimbBits)
        d2 == DivBits(d1[2], b, LimbBits)
        d3 == DivBits(d2[2], b, LimbBits)
    IN Round53(<<(a \div b) * IntShift + d1[1], d2[1], d3[1]>>, d3[2] # 0)

\* x / f for a float x and an integer-valued float f, 1 <= f < 64
FloatDivInt(x, f) ==
    LET r1 == x[1] % f
        r2 == (r1 * Limb + x[2]) % f
        r3 == (r2 * Limb + x[3]) % f
    IN Round53(<<x[1] \div f, (r1 * Limb + x[2]) \div f, (r2 * Limb + x[3]) \div f>>, r3 # 0)

\* x / 2
FloatHalf(x) ==
    <<x[1] \div 2, x[2] \div 2 + (x[1] % 2) * (Limb \div 2), x[3] \div 2 + (x[2] % 2) * (Limb \div 2)>>

\* x + y
FloatAdd(x, y) == Round53(Normalise(x[1] + y[1], x[2] + y[2], x[3] + y[3]), FALSE)

\* int(x)
FloatTrunc(x) == x[1] \div IntShift

FloatZero == <<0, 0, 0>>

\* ------------------------------------------------------------------ frames
\* A decoded frame is a sequence of FrameH rows of FrameW pixels of
\* FrameDepth 8-bit channels; Python's image[r][c] is image[r + 1][c + 1].
FrameNames == {"black", "letterbox", "pillarbox", "full"}

Bright == 255

\* the pixel (row r, column c, 0-based) of the frame called name
PixelOf(name, r, c) ==
    LET v == CASE name = "black" -> 0
               [] name = "letterbox" -> IF r = 0 \/ r = FrameH - 1 THEN 0 ELSE Bright
               [] name = "pillarbox" -> IF c = 0 \/ c = FrameW - 1 THEN 0 ELSE Bright
               [] OTHER -> Bright
    IN [ch \in 1..FrameDepth |-> v]

\* what video.read() decodes for the frame called name
Decode(name) == [r \in 1..FrameH |-> [c \in 1..FrameW |-> PixelOf(name, r - 1, c - 1)]]

\* image.shape[0], image.shape[1], image.shape[2]
ShapeH(image) == Len(image)
ShapeW(image) == IF Len(image) = 0 THEN 0 ELSE Len(image[1])
ShapeD(image) == IF ShapeW(image) = 0 THEN 0 ELSE Len(image[1][1])

RECURSIVE SumSeq(_)
SumSeq(q) == IF Len(q) = 0 THEN 0 ELSE Head(q) + SumSeq(Tail(q))

\* np.sum(image, axis=(1, 2)): one sum per row
RowSums(image) == [r \in 1..ShapeH(image) |->
                     SumSeq([c \in 1..ShapeW(image) |-> SumSeq(image[r][c])])]

\* np.sum(image, axis=(0, 2)): one sum per column
ColSums(image) == [c \in 1..ShapeW(image) |->
                     SumSeq([r \in 1..ShapeH(image) |-> SumSeq(image[r][c])])]

\* ----------------------------------------------------------- MatteTrimmer
\* the loop of find_matrix_edges from element pos (1-based) on
RECURSIVE EdgeScan(_, _, _, _, _)
EdgeScan(matrix, threshold, pos, data_start, data_end) ==
    IF pos > Len(matrix) THEN <<data_start, data_end>>
    ELSE IF matrix[pos] > threshold
         THEN EdgeScan(matrix, threshold, pos + 1,
                       IF data_start = NoneVal THEN pos - 1 ELSE data_start, pos - 1)
         ELSE EdgeScan(matrix, threshold, pos + 1, data_start, data_end)

\* the loop of find_matrix_edges with "value >= threshold" as its test
RECURSIVE EdgeScanInclusive(_, _, _, _, _)
EdgeScanInclusive(matrix, threshold, pos, data_start, data_end) ==
    IF pos > Len(matrix) THEN <<data_start, data_end>>
    ELSE IF matrix[pos] >= threshold
         THEN EdgeScanInclusive(matrix, threshold, pos + 1,
                                IF data_start = NoneVal THEN pos - 1 ELSE data_start, pos - 1)
         ELSE EdgeScanInclusive(matrix, threshold, pos + 1, data_start, data_end)

find_matrix_edges_inclusive(matrix, threshold) ==
    EdgeScanInclusive(matrix, threshold, 1, NoneVal, NoneVal)

find_matrix_edges(matrix, threshold) == EdgeScan(matrix, threshold, 1, NoneVal, NoneVal)

\* bounds are <<<<left, top>>, <<right, bottom>>>>: Python's bounds[i][j] is bounds[i + 1][j + 1]
\* find_larger_bound with the bottom edge always taken from the first rectangle
find_larger_bound_first_bottom(first, second) ==
    LET left_edge == IF first[1][1] <= second[1][1] THEN first[1][1] ELSE second[1][1]
        right_edge == IF first[2][1] >= second[2][1] THEN first[2][1] ELSE second[2][1]
        top_edge == IF first[1][2] <= second[1][2] THEN first[1][2] ELSE second[1][2]
    IN <<<<left_edge, top_edge>>, <<right_edge, first[2][2]>>>>

find_larger_bound(first, second) ==
    LET left_edge == IF first[1][1] <= second[1][1] THEN first[1][1] ELSE second[1][1]
        right_edge == IF first[2][1] >= second[2][1] THEN first[2][1] ELSE second[2][1]
        top_edge == IF first[1][2] <= second[1][2] THEN first[1][2] ELSE second[1][2]
        bottom_edge == IF first[2][2] >= second[2][2] THEN first[2][2] ELSE second[2][2]
    IN <<<<left_edge, top_edge>>, <<right_edge, bottom_edge>>>>

\* valid_bounds of a 2x2 array (valid_bounds(None) raises, see DetReturn)
valid_bounds(bounds) ==
    IF \E x \in 1..2 : \E y \in 1..2 : bounds[x][y] = NoneVal THEN FALSE
    ELSE IF bounds[1][1] > bounds[2][1] \/ bounds[1][2] > bounds[2][2] THEN FALSE
    ELSE TRUE

\* <<success, image_bounds>>
determine_image_bounds(image, threshold) ==
    LET height == ShapeH(image)
        width == ShapeW(image)
        depth == ShapeD(image)
        vertical_edges == find_matrix_edges(RowSums(image), threshold * width * depth)
        horizontal_edges == find_matrix_edges(ColSums(image), threshold * height * depth)
        image_bounds == <<<<horizontal_edges[1], vertical_edges[1]>>,
                          <<horizontal_edges[2], vertical_edges[2]>>>>
    IN <<valid_bounds(image_bounds), image_bounds>>

\* image[top:bottom, left:right]
crop_image(image, bounds) ==
    LET rows == SubSeq(image, bounds[1][2] + 1, bounds[2][2])
    IN [r \in 1..Len(rows) |-> SubSeq(rows[r], bounds[1][1] + 1, bounds[2][1])]

\* cv2.resize(image, (width, height)): the cell keeps what it was scaled from
Resize(image, width, height) == [height |-> height, width |-> width, src |-> image]

\* ------------------------------------------------------------ video source
\* A video file: whether it opens, the frame count and fps of its metadata,
\* how many frames decode (frames 0..decodable-1), and its content: frame i
\* shows imgs[(i % Len(imgs)) + 1].
FrameAt(source, index) == Decode(source.imgs[(index % Len(source.imgs)) + 1])

\* video.set(CAP_PROP_POS_FRAMES, index); video.read() succeeds
CanRead(source, index) == index >= 0 /\ index < source.decodable

RECURSIVE SeqsOf(_, _)
SeqsOf(S, len) == IF len = 0 THEN {<<>>}
                  ELSE {Append(q, e) : q \in SeqsOf(S, len - 1), e \in S}

Videos ==
    {[exists |-> FALSE, total |-> 0, fps |-> 10, decodable |-> 0, imgs |-> <<>>]}
    \cup UNION {{[exists |-> TRUE, total |-> t, fps |-> 10, decodable |-> d, imgs |-> p] :
                    p \in SeqsOf(FrameNames, d)} : <<t, d>> \in {x \in (0..MaxFrames) \X (0..MaxFrames) : x[2] <= x[1]}}
    \cup {[exists |-> TRUE, total |-> 100, fps |-> 10, decodable |-> 100, imgs |-> p] :
            p \in SeqsOf(FrameNames, MaxFrames)}
    \cup {[exists |-> TRUE, total |-> output_height + 1, fps |-> 10,
           decodable |-> output_height + 1, imgs |-> p] : p \in SeqsOf(FrameNames, 1)}

\* ---------------------------------------------------------------- arguments
\* nframes as passed: an int, or a float num/den
IntArg(n) == [isint |-> TRUE, num |-> n, den |-> 1]
FloatArg(n, d) == [isint |-> FALSE, num |-> n, den |-> d]

NFramesArgs ==
    {IntArg(n) : n \in (-1..(MaxFrames + 1)) \cup {TrimSamples, 150, output_height + 1}}
    \cup {FloatArg(3, 2)}

HeightArgs == {NoneVal, 7}
WidthArgs == {NoneVal, 0, default_frame_width}
DirectionArgs == {"horizontal", "vertical", "diagonal"}
\* console output stays on, as in main()
QuietArgs == {FALSE}

VisArgs == [nframes : NFramesArgs, height : HeightArgs, width : WidthArgs,
            direction : DirectionArgs, trim : BOOLEAN, quiet : QuietArgs]

\* int(a / b) for integers a >= 0 and b # 0: a / b is within 2^-40 of the
\* exact quotient, which is an integer or at least 1/|b| away from one
IntOfQuotient(a, b) == IF b > 0 THEN a \div b ELSE 0 - (a \div (0 - b))

\* ------------------------------------------------------------------- state
VARIABLES
    video,    \* the source file
    handles,  \* per cv2.VideoCapture object: how often opened and released
    vis,      \* the frame of FrameVis.visualize
    det,      \* the frame of MatteTrimmer.determine_video_bounds
    ifn,      \* the frame of FrameVis.interval_from_nframes
    fn        \* a pure MatteTrimmer function applied on its own (SpecRect)

vars == <<video, handles, vis, det, ifn, fn>>

NoHandle == [opened |-> 0, released |-> 0]
Opened(h) == [h EXCEPT !.opened = @ + 1]
Released(h) == [h EXCEPT !.released = @ + 1]

VisIdle ==
    [pc |-> "idle", exc |-> "none", args |-> <<>>,
     height |-> NoneVal, width |-> NoneVal,
     video_total_frames |-> 0, video_duration |-> FloatZero, keyframe_interval |-> FloatZero,
     image |-> <<>>, matte_type |-> 0, cropping_bounds |-> <<>>,
     crop_width |-> NoneVal, crop_height |-> NoneVal,
     next_keyframe |-> FloatZero, finished_frames |-> 0, output_image |-> <<>>,
     seeks |-> <<>>, reads |-> 0, detections |-> 0]

DetIdle ==
    [pc |-> "idle", exc |-> "none", caller |-> "none", nsamples |-> 0, threshold |-> 0,
     keyframe_interval |-> FloatZero, next_keyframe |-> FloatZero, frame_number |-> 0,
     video_bounds |-> <<>>, result |-> <<>>, seeks |-> <<>>, reads |-> 0]

IfnIdle == [pc |-> "idle", exc |-> "none", nframes |-> <<>>, negative |-> FALSE, result |-> FloatZero]

FnIdle ==
    [op |-> "none", first |-> <<>>, second |-> <<>>, third |-> <<>>, image |-> <<>>,
     threshold |-> 0, out |-> <<>>]

NoCall == vis.pc = "idle" /\ det.pc = "idle" /\ ifn.pc = "idle" /\ fn.op = "none"

Init ==
    /\ video \in Videos
    /\ handles = [main |-> NoHandle, detect |-> NoHandle, interval |-> NoHandle]
    /\ vis = VisIdle
    /\ det = DetIdle
    /\ ifn = IfnIdle
    /\ fn = FnIdle

\* ------------------------------------------------ FrameVis.visualize
\* the checks of nframes without the comparison against the frame count
Validated_no_upper_check(v, n) ==
    IF ~n.isint \/ n.num < 1
    THEN [v EXCEPT !.pc = "raised", !.exc = "ValueError",
                   !.video_total_frames = video.total,
                   !.video_duration = FloatDiv(video.total, video.fps)]
    ELSE [v EXCEPT !.pc = "validated",
                   !.video_total_frames = video.total,
                   !.video_duration = FloatDiv(video.total, video.fps),
                   !.keyframe_interval = FloatDiv(video.total, n.num)]

\* the frame after the checks of nframes: the frame count, the duration, the interval
Validated(v, n) ==
    IF ~n.isint \/ n.num < 1 \/ n.num > video.total
    THEN [v EXCEPT !.pc = "raised", !.exc = "ValueError",
                   !.video_total_frames = video.total,
                   !.video_duration = FloatDiv(video.total, video.fps)]
    ELSE [v EXCEPT !.pc = "validated",
                   !.video_total_frames = video.total,
                   !.video_duration = FloatDiv(video.total, video.fps),
                   !.keyframe_interval = FloatDiv(video.total, n.num)]

\* the call with arguments a: height = int(self.output_height / nframes),
\* the open, the checks of nframes
VisCallWith(a) ==
    IF a.nframes.num = 0
    THEN /\ vis' = [vis EXCEPT !.pc = "raised", !.exc = "ZeroDivisionError", !.args = a,
                               !.width = a.width, !.height = a.height]
         /\ UNCHANGED handles
    ELSE LET h == IntOfQuotient(output_height * a.nframes.den, a.nframes.num)
         IN IF ~video.exists
            THEN /\ vis' = [vis EXCEPT !.pc = "raised", !.exc = "FileNotFoundError",
                                       !.args = a, !.width = a.width, !.height = h]
                 /\ UNCHANGED handles
            ELSE /\ vis' = Validated([vis EXCEPT !.args = a, !.width = a.width,
                                                 !.height = h], a.nframes)
                 /\ handles' = [handles EXCEPT !.main = Opened(@)]

\* a call of visualize with any of the arguments of VisArgs
VisCall ==
    /\ NoCall
    /\ \E a \in VisArgs : VisCallWith(a)
    /\ UNCHANGED <<video, det, ifn, fn>>

\* success, image = video.read(): the frame for the dimension calculations
VisFirstRead ==
    /\ vis.pc = "validated"
    /\ vis' = IF CanRead(video, 0)
              THEN [vis EXCEPT !.pc = "trim", !.image = FrameAt(video, 0), !.reads = @ + 1]
              ELSE [vis EXCEPT !.pc = "raised", !.exc = "IOError"]
    /\ UNCHANGED <<video, handles, det, ifn, fn>>

\* ------------------------------- MatteTrimmer.determine_video_bounds
\* the frame after the call and video = cv2.VideoCapture(source)
DetStart(nsamples, threshold, caller) ==
    IF video.exists
    THEN [DetIdle EXCEPT !.pc = "opened", !.caller = caller, !.nsamples = nsamples,
                         !.threshold = threshold]
    ELSE [DetIdle EXCEPT !.pc = "raised", !.exc = "FileNotFoundError", !.caller = caller,
                         !.nsamples = nsamples, !.threshold = threshold]

DetHandles(h) == IF video.exists THEN [h EXCEPT !.detect = Opened(@)] ELSE h

\* a direct call
DetCall ==
    /\ NoCall
    /\ \E nsamples \in 0..MaxSamples :
        det' = DetStart(nsamples, TrimThreshold, "direct")
    /\ handles' = DetHandles(handles)
    /\ UNCHANGED <<video, vis, ifn, fn>>

\* the check of nsamples, the interval, the first read, the loop's set-up
DetPrepare ==
    /\ det.pc = "opened"
    /\ det' = IF det.nsamples < 1
              THEN [det EXCEPT !.pc = "raised", !.exc = "ValueError"]
              ELSE IF ~CanRead(video, 0)
              THEN [det EXCEPT !.pc = "raised", !.exc = "IOError",
                               !.keyframe_interval = FloatDiv(video.total, det.nsamples)]
              ELSE [det EXCEPT !.pc = "loop", !.reads = @ + 1,
                               !.keyframe_interval = FloatDiv(video.total, det.nsamples),
                               !.next_keyframe = FloatHalf(FloatDiv(video.total, det.nsamples)),
                               !.frame_number = 0, !.video_bounds = <<>>]
    /\ UNCHANGED <<video, handles, vis, ifn, fn>>

\* video_bounds after one more frame's bounds
MergeBounds(video_bounds, frame_bounds) ==
    IF video_bounds = <<>> THEN frame_bounds ELSE find_larger_bound(video_bounds, frame_bounds)

\* the frame after one pass of the for loop's body, which seeks to index
DetIteration(d, index) ==
    IF ~CanRead(video, index)
    THEN [d EXCEPT !.pc = "raised", !.exc = "IOError", !.seeks = Append(@, index)]
    ELSE LET found == determine_image_bounds(FrameAt(video, index), d.threshold)
         IN IF ~found[1]
            THEN [d EXCEPT !.seeks = Append(@, index), !.reads = @ + 1,
                           !.frame_number = @ + 1]
            ELSE [d EXCEPT !.seeks = Append(@, index), !.reads = @ + 1,
                           !.frame_number = @ + 1,
                           !.video_bounds = MergeBounds(@, found[2]),
                           !.next_keyframe = FloatAdd(@, d.keyframe_interval)]

\* for frame_number in range(nsamples): one pass
DetLoopStep ==
    /\ det.pc = "loop"
    /\ det.frame_number < det.nsamples
    /\ det' = DetIteration(det, FloatTrunc(det.next_keyframe))
    /\ UNCHANGED <<video, handles, vis, ifn, fn>>

\* video.release(); return MatteTrimmer.valid_bounds(video_bounds), video_bounds
DetReturn ==
    /\ det.pc = "loop"
    /\ det.frame_number = det.nsamples
    /\ handles' = [handles EXCEPT !.detect = Released(@)]
    /\ det' = IF det.video_bounds = <<>>
              THEN [det EXCEPT !.pc = "raised", !.exc = "TypeError"]
              ELSE [det EXCEPT !.pc = "returned",
                               !.result = <<valid_bounds(det.video_bounds), det.video_bounds>>]
    /\ UNCHANGED <<video, vis, ifn, fn>>

\* ------------------------------------- FrameVis.visualize, continued
\* trim == True: MatteTrimmer.determine_video_bounds(source, 10, 3)
VisTrimCall ==
    /\ vis.pc = "trim"
    /\ vis.args.trim
    /\ vis' = [vis EXCEPT !.pc = "in_detect", !.detections = @ + 1]
    /\ det' = DetStart(TrimSamples, TrimThreshold, "visualize")
    /\ handles' = DetHandles(handles)
    /\ UNCHANGED <<video, ifn, fn>>

\* trim == False
VisNoTrim ==
    /\ vis.pc = "trim"
    /\ ~vis.args.trim
    /\ vis' = [vis EXCEPT !.pc = "dims", !.matte_type = 0]
    /\ UNCHANGED <<video, handles, det, ifn, fn>>

\* matte_type from the detected bounds and the first frame
MatteType(crop_width, crop_height, image) ==
    (IF crop_height # ShapeH(image) THEN 1 ELSE 0) + (IF crop_width # ShapeW(image) THEN 2 ELSE 0)

\* determine_video_bounds came back: the crop size and matte_type, or its exception
VisTrimReturn ==
    /\ vis.pc = "in_detect"
    /\ det.pc \in {"returned", "raised"}
    /\ vis' = IF det.pc = "raised"
              THEN [vis EXCEPT !.pc = "raised", !.exc = det.exc]
              ELSE IF ~det.result[1]
              THEN [vis EXCEPT !.pc = "dims", !.cropping_bounds = det.result[2], !.matte_type = 0]
              ELSE LET b == det.result[2]
                       cw == b[2][1] - b[1][1] + 1
                       ch == b[2][2] - b[1][2] + 1
                   IN [vis EXCEPT !.pc = "dims", !.cropping_bounds = b,
                                  !.crop_width = cw, !.crop_height = ch,
                                  !.matte_type = MatteType(cw, ch, vis.image)]
    /\ UNCHANGED <<video, handles, det, ifn, fn>>

\* height after "calculate height": <<value, raised>>
CalcHeight(v) ==
    IF v.height = NoneVal
    THEN <<IF v.args.direction = "horizontal"
           THEN (IF v.matte_type % 2 = 1 THEN v.crop_height ELSE ShapeH(v.image))
           ELSE default_concat_size, FALSE>>
    ELSE <<v.height, v.height < 1>>

\* width after "calculate width": <<value, raised>>
CalcWidth(v) ==
    IF v.width = NoneVal
    THEN <<IF v.args.direction = "vertical"
           THEN (IF (v.matte_type \div 2) % 2 = 1 THEN v.crop_width ELSE ShapeW(v.image))
           ELSE default_concat_size, FALSE>>
    ELSE <<v.width, v.width < 1>>

\* height, width, direction, the summary line (interval_from_nframes opens
\* and releases a handle of its own), the loop's set-up
VisDims ==
    /\ vis.pc = "dims"
    /\ LET h == CalcHeight(vis)
           w == CalcWidth(vis)
       IN IF h[2]
          THEN /\ vis' = [vis EXCEPT !.pc = "raised", !.exc = "ValueError"]
               /\ UNCHANGED handles
          ELSE IF w[2]
          THEN /\ vis' = [vis EXCEPT !.pc = "raised", !.exc = "ValueError", !.height = h[1]]
               /\ UNCHANGED handles
          ELSE IF vis.args.direction \notin {"horizontal", "vertical"}
          THEN /\ vis' = [vis EXCEPT !.pc = "raised", !.exc = "ValueError",
                                     !.height = h[1], !.width = w[1]]
               /\ UNCHANGED handles
          ELSE /\ vis' = [vis EXCEPT !.pc = "loop", !.height = h[1], !.width = w[1],
                                     !.next_keyframe = FloatHalf(vis.keyframe_interval),
                                     !.finished_frames = 0, !.output_image = <<>>]
               /\ handles' = IF vis.args.quiet THEN handles
                             ELSE [handles EXCEPT !.interval = Released(Opened(@))]
    /\ UNCHANGED <<video, det, ifn, fn>>

\* the float of an integer
FloatOfInt(i) == <<i * IntShift, 0, 0>>

\* one pass of the loop's body that keeps the running offset as an integer:
\* next_keyframe = int(next_keyframe + keyframe_interval)
VisIteration_truncated_offset(v, index) ==
    IF ~CanRead(video, index)
    THEN [v EXCEPT !.pc = "raised", !.exc = "IOError", !.seeks = Append(@, index)]
    ELSE [v EXCEPT !.seeks = Append(@, index), !.reads = @ + 1,
                   !.image = Resize(FrameAt(video, index), v.width, v.height),
                   !.output_image = Append(@, Resize(FrameAt(video, index), v.width, v.height)),
                   !.finished_frames = @ + 1,
                   !.next_keyframe = FloatOfInt(FloatTrunc(FloatAdd(@, v.keyframe_interval)))]

\* one pass of the loop's body that skips a frame it cannot read instead of
\* raising: the sample is counted and the offset advanced, no cell is added
VisIteration_skip_unreadable(v, index) ==
    IF ~CanRead(video, index)
    THEN [v EXCEPT !.seeks = Append(@, index), !.finished_frames = @ + 1,
                   !.next_keyframe = FloatAdd(@, v.keyframe_interval)]
    ELSE LET frame == FrameAt(video, index)
             cropped == IF v.matte_type # 0 THEN crop_image(frame, v.cropping_bounds) ELSE frame
         IN [v EXCEPT !.seeks = Append(@, index), !.reads = @ + 1,
                      !.image = Resize(cropped, v.width, v.height),
                      !.output_image = Append(@, Resize(cropped, v.width, v.height)),
                      !.finished_frames = @ + 1,
                      !.next_keyframe = FloatAdd(@, v.keyframe_interval)]

\* the frame after one pass of the while loop's body, which seeks to index
VisIteration(v, index) ==
    IF ~CanRead(video, index)
    THEN [v EXCEPT !.pc = "raised", !.exc = "IOError", !.seeks = Append(@, index)]
    ELSE LET frame == FrameAt(video, index)
             cropped == IF v.matte_type # 0 THEN crop_image(frame, v.cropping_bounds) ELSE frame
         IN IF ShapeH(cropped) = 0 \/ ShapeW(cropped) = 0
            THEN [v EXCEPT !.pc = "raised", !.exc = "cv2.error", !.seeks = Append(@, index),
                           !.reads = @ + 1, !.image = cropped]
            ELSE [v EXCEPT !.seeks = Append(@, index), !.reads = @ + 1,
                           !.image = Resize(cropped, v.width, v.height),
                           !.output_image = Append(@, Resize(cropped, v.width, v.height)),
                           !.finished_frames = @ + 1,
                           !.next_keyframe = FloatAdd(@, v.keyframe_interval)]

\* while True: one pass that does not break
VisLoopStep ==
    /\ vis.pc = "loop"
    /\ vis.finished_frames # vis.args.nframes.num
    /\ vis' = VisIteration(vis, FloatTrunc(vis.next_keyframe))
    /\ UNCHANGED <<video, handles, det, ifn, fn>>

\* break; video.release(); return output_image, video_duration
VisReturn ==
    /\ vis.pc = "loop"
    /\ vis.finished_frames = vis.args.nframes.num
    /\ vis' = [vis EXCEPT !.pc = "returned"]
    /\ handles' = [handles EXCEPT !.main = Released(@)]
    /\ UNCHANGED <<video, det, ifn, fn>>

\* --------------------------------------- FrameVis.interval_from_nframes
Abs(i) == IF i < 0 THEN 0 - i ELSE i

\* the quotients of the call lie in the range the float model is exact for
Representable(n) ==
    n.num = 0 \/ video.total = 0 \/ video.total * n.den * 128 >= Abs(n.num) * video.fps

\* a direct call, as a whole
IfnCall ==
    /\ NoCall
    /\ \E n \in NFramesArgs :
        /\ Representable(n)
        /\ IF ~video.exists
           THEN /\ ifn' = [ifn EXCEPT !.pc = "raised", !.exc = "FileNotFoundError", !.nframes = n]
                /\ UNCHANGED handles
           ELSE IF n.num = 0
           THEN /\ ifn' = [ifn EXCEPT !.pc = "raised", !.exc = "ZeroDivisionError", !.nframes = n]
                /\ handles' = [handles EXCEPT !.interval = Opened(@)]
           ELSE /\ ifn' = [ifn EXCEPT !.pc = "returned", !.nframes = n, !.negative = n.num < 0,
                                      !.result = FloatDivInt(FloatDiv(video.total * n.den, Abs(n.num)),
                                                             video.fps)]
                /\ handles' = [handles EXCEPT !.interval = Released(Opened(@))]
    /\ UNCHANGED <<video, vis, det, fn>>

Next ==
    \/ VisCall \/ VisFirstRead \/ VisTrimCall \/ VisNoTrim \/ VisTrimReturn
    \/ VisDims \/ VisLoopStep \/ VisReturn
    \/ DetCall \/ DetPrepare \/ DetLoopStep \/ DetReturn
    \/ IfnCall

Spec == Init /\ [][Next]_vars

\* ------------------------------- the pure MatteTrimmer functions alone
\* valid rectangles with corners in 0..MaxCoord, and the bounds detected
\* in the frames of the library
Rects ==
    {<<<<l, t>>, <<r, b>>>> : <<l, t, r, b>> \in
        {c \in (0..MaxCoord) \X (0..MaxCoord) \X (0..MaxCoord) \X (0..MaxCoord) :
            c[1] <= c[3] /\ c[2] <= c[4]}}
    \cup {determine_image_bounds(Decode(name), TrimThreshold)[2] :
            name \in {m \in FrameNames : determine_image_bounds(Decode(m), TrimThreshold)[1]}}

InitRect ==
    /\ video \in {v \in Videos : ~v.exists}
    /\ handles = [main |-> NoHandle, detect |-> NoHandle, interval |-> NoHandle]
    /\ vis = VisIdle
    /\ det = DetIdle
    /\ ifn = IfnIdle
    /\ \E a \in Rects, b \in Rects, c \in Rects :
        fn = [FnIdle EXCEPT !.first = a, !.second = b, !.third = c]

\* MatteTrimmer.find_larger_bound(first, second)
ApplyFindLargerBound ==
    /\ fn.op = "none"
    /\ fn' = [fn EXCEPT !.op = "find_larger_bound", !.out = find_larger_bound(fn.first, fn.second)]
    /\ UNCHANGED <<video, handles, vis, det, ifn>>

\* MatteTrimmer.crop_image(image, first) of a decoded frame
ApplyCropImage ==
    /\ fn.op = "none"
    /\ \E name \in FrameNames :
        fn' = [fn EXCEPT !.op = "crop_image", !.image = Decode(name),
                         !.out = crop_image(Decode(name), fn.first)]
    /\ UNCHANGED <<video, handles, vis, det, ifn>>

NextRect == ApplyFindLargerBound \/ ApplyCropImage

SpecRect == InitRect /\ [][NextRect]_vars

\* ------------------------------- determine_image_bounds alone
\* channel values just below, at and just above the threshold
ProfileValues == {TrimThreshold - 1, TrimThreshold, TrimThreshold + 1}

\* the ProfileH x ProfileW x FrameDepth images whose pixels have one of
\* ProfileValues in every channel
ProfileRows == {[c \in 1..ProfileW |-> [ch \in 1..FrameDepth |-> px[c]]] :
                px \in [1..ProfileW -> ProfileValues]}

ProfileImages == [1..ProfileH -> ProfileRows]

InitBounds ==
    /\ video \in {v \in Videos : ~v.exists}
    /\ handles = [main |-> NoHandle, detect |-> NoHandle, interval |-> NoHandle]
    /\ vis = VisIdle
    /\ det = DetIdle
    /\ ifn = IfnIdle
    /\ \E image \in ProfileImages :
        fn = [FnIdle EXCEPT !.image = image, !.threshold = TrimThreshold]

\* MatteTrimmer.determine_image_bounds(image, threshold)
ApplyDetermineImageBounds ==
    /\ fn.op = "none"
    /\ fn' = [fn EXCEPT !.op = "determine_image_bounds",
                        !.out = determine_image_bounds(fn.image, fn.threshold)]
    /\ UNCHANGED <<video, handles, vis, det, ifn>>

NextBounds == ApplyDetermineImageBounds

SpecBounds == InitBounds /\ [][NextBounds]_vars

\* ------------------------------- the sampling plan of visualize alone
\* videos of 1..MaxPlanTotal frames and the 100-frame video, every frame
\* decodable and unmatted
PlanVideos ==
    {[exists |-> TRUE, total |-> t, decodable |-> t, imgs |-> <<"full">>, fps |-> 10] :
        t \in (1..MaxPlanTotal) \cup {100}}

\* visualize(source, nframes = n): every other argument at its default
\* (height is overwritten by the call, see VisCallWith)
PlanArgs(n) ==
    [nframes |-> IntArg(n), height |-> NoneVal, width |-> default_frame_width,
     direction |-> "vertical", trim |-> FALSE, quiet |-> FALSE]

InitPlan ==
    /\ video \in PlanVideos
    /\ handles = [main |-> NoHandle, detect |-> NoHandle, interval |-> NoHandle]
    /\ vis = VisIdle
    /\ det = DetIdle
    /\ ifn = IfnIdle
    /\ fn = FnIdle

\* a call of visualize with a sample count the video has frames for
PlanCall ==
    /\ NoCall
    /\ \E n \in 1..video.total : VisCallWith(PlanArgs(n))
    /\ UNCHANGED <<video, det, ifn, fn>>

NextPlan ==
    \/ PlanCall \/ VisFirstRead \/ VisNoTrim \/ VisDims \/ VisLoopStep \/ VisReturn

SpecPlan == InitPlan /\ [][NextPlan]_vars

\* ------------------------------------------------------------------ claims
Terminal(f) == f.pc \in {"returned", "raised"}

StrictlyIncreasing(q) == \A i \in 1..(Len(q) - 1) : q[i] < q[i + 1]

\* the requested count is not a positive integer, or exceeds the frame count
BadCount(n, total) == ~n.isint \/ n.num < 1 \/ n.num > total

\* width and direction as passed are acceptable
DimsArgsValid(a) ==
    /\ a.width = NoneVal \/ a.width >= 1
    /\ a.direction \in {"horizontal", "vertical"}

\* C1: on a video of at least one frame whose frames all decode, visualize
\* called (trim off, width and direction valid) with an integer
\* 1 <= nframes <= total frames ends its loop having read exactly nframes
\* frames, at strictly increasing frame indices.
C1_SamplesEveryRequestedFrame ==
    (/\ Terminal(vis)
     /\ video.exists /\ video.total >= 1 /\ video.decodable = video.total
     /\ ~BadCount(vis.args.nframes, video.total)
     /\ DimsArgsValid(vis.args) /\ ~vis.args.trim)
    => /\ vis.pc = "returned"
       /\ vis.finished_frames = vis.args.nframes.num
       /\ Len(vis.seeks) = vis.args.nframes.num
       /\ StrictlyIncreasing(vis.seeks)

\* C2: when visualize or determine_video_bounds has returned or raised, the
\* video handle it opened has been released, exactly once.
C2_HandleReleasedOnEveryExit ==
    /\ Terminal(vis) => handles.main.released = handles.main.opened
    /\ Terminal(det) => handles.detect.released = handles.detect.opened
    /\ handles.main.released <= 1 /\ handles.detect.released <= 1

\* every pass of the detection loop has run and none found valid bounds
NoValidSample ==
    /\ Terminal(det)
    /\ det.nsamples >= 1
    /\ det.frame_number = det.nsamples
    /\ det.video_bounds = <<>>

\* C3: when no sampled frame yields valid bounds, determine_video_bounds
\* returns success = False without raising, and visualize with trim set
\* goes on with matte_type 0.
C3_NoValidBoundsIsNoMatting ==
    NoValidSample
    => /\ det.pc = "returned"
       /\ ~det.result[1]
       /\ (det.caller = "visualize" /\ vis.pc # "in_detect")
            => (vis.matte_type = 0 /\ vis.exc # det.exc)

\* the union of the valid bounds of the frames at the planned positions
\* int(interval / 2 + k * interval), k = done .. nsamples - 1, joined to acc
RECURSIVE UnionOfPlan(_, _, _, _, _, _)
UnionOfPlan(source, nsamples, done, position, acc, threshold) ==
    IF done = nsamples THEN acc
    ELSE LET found == determine_image_bounds(FrameAt(source, FloatTrunc(position)), threshold)
         IN UnionOfPlan(source, nsamples, done + 1,
                        FloatAdd(position, FloatDiv(source.total, nsamples)),
                        IF found[1] THEN MergeBounds(acc, found[2]) ELSE acc, threshold)

PlannedBounds(source, nsamples, threshold) ==
    UnionOfPlan(source, nsamples, 0, FloatHalf(FloatDiv(source.total, nsamples)), <<>>, threshold)

\* C4: determine_video_bounds returns the union of the bounds of all
\* planned sample positions whose own detection is valid; an invalid frame
\* does not fail the pass nor keep later frames from contributing.
C4_BoundsAreUnionOfValidSamples ==
    (/\ Terminal(det)
     /\ video.exists /\ video.total >= 1 /\ video.decodable = video.total
     /\ det.nsamples >= 1
     /\ PlannedBounds(video, det.nsamples, det.threshold) # <<>>)
    => /\ det.pc = "returned"
       /\ det.result = <<TRUE, PlannedBounds(video, det.nsamples, det.threshold)>>

\* C5: for the same video and sample count the detection pass seeks to the
\* same frame indices as the main pass, whatever the frames' bounds.
C5_BothPassesSeekAlike ==
    (vis.pc = "returned" /\ vis.args.trim /\ vis.args.nframes.num = det.nsamples)
    => det.seeks = vis.seeks

\* C6: visualize and interval_from_nframes raise ValueError, and nothing
\* else, when the requested count is not a positive integer or exceeds the
\* frame count of the (existing) video.
C6_BadCountRaisesValueError ==
    /\ (Terminal(vis) /\ video.exists /\ BadCount(vis.args.nframes, video.total))
        => (vis.pc = "raised" /\ vis.exc = "ValueError")
    /\ (Terminal(ifn) /\ video.exists /\ BadCount(ifn.nframes, video.total))
        => (ifn.pc = "raised" /\ ifn.exc = "ValueError")

\* C7 as claimed: whenever visualize raises ValueError, no frame has been
\* read and no detection pass has run.
C7_ValueErrorBeforeAnyRead ==
    (vis.pc = "raised" /\ vis.exc = "ValueError") => (vis.reads = 0 /\ vis.detections = 0)

\* C7 as amended: a ValueError of visualize comes before the sampling loop
\* seeks or reads anything; for a bad sample count it comes before any
\* read and any detection pass, otherwise (height, width, direction) after
\* the read of the first frame.
C7_ValueErrorBeforeSampling ==
    (vis.pc = "raised" /\ vis.exc = "ValueError")
    => /\ Len(vis.seeks) = 0
       /\ IF BadCount(vis.args.nframes, video.total)
          THEN vis.reads = 0 /\ vis.detections = 0
          ELSE vis.reads = 1 /\ vis.detections = (IF vis.args.trim THEN 1 ELSE 0)

C7_Witness ==
    /\ vis.pc = "raised" /\ vis.exc = "ValueError"
    /\ vis.reads = 1 /\ vis.detections = 1
    /\ det.pc = "returned"

\* C8: with an explicit positive height every sampled frame is resized to
\* that height.
C8_ExplicitHeightIsCellHeight ==
    (vis.pc # "idle" /\ vis.args.height # NoneVal /\ vis.args.height >= 1)
    => \A i \in 1..Len(vis.output_image) : vis.output_image[i].height = vis.args.height

\* C9: crop_image(image, ((left, top), (right, bottom))) is the
\* (right-left+1) x (bottom-top+1) image of the rows top..bottom and the
\* columns left..right.
C9_CropIsInclusive ==
    fn.op = "crop_image"
    => LET left == fn.first[1][1]
           top == fn.first[1][2]
           right == fn.first[2][1]
           bottom == fn.first[2][2]
       IN /\ ShapeH(fn.out) = bottom - top + 1
          /\ ShapeW(fn.out) = right - left + 1
          /\ \A r \in top..bottom : \A c \in left..right :
                fn.out[r - top + 1][c - left + 1] = fn.image[r + 1][c + 1]

Contains(outer, inner) ==
    /\ outer[1][1] <= inner[1][1] /\ outer[1][2] <= inner[1][2]
    /\ outer[2][1] >= inner[2][1] /\ outer[2][2] >= inner[2][2]

\* C10: find_larger_bound(a, b) is a valid rectangle containing a and b,
\* contained in every rectangle that contains both; the operation is
\* commutative, associative and idempotent.
C10_LargerBoundIsLeastUpperBound ==
    fn.op = "find_larger_bound"
    => /\ valid_bounds(fn.out)
       /\ Contains(fn.out, fn.first) /\ Contains(fn.out, fn.second)
       /\ \A r \in Rects : (Contains(r, fn.first) /\ Contains(r, fn.second)) => Contains(r, fn.out)
       /\ fn.out = find_larger_bound(fn.second, fn.first)
       /\ find_larger_bound(fn.out, fn.third)
            = find_larger_bound(fn.first, find_larger_bound(fn.second, fn.third))
       /\ find_larger_bound(fn.first, fn.first) = fn.first

C10_Witness ==
    /\ fn.op = "find_larger_bound"
    /\ fn.out \notin {fn.first, fn.second}
    /\ fn.third \notin {fn.first, fn.second, fn.out}

\* floor((2k+1) * totalFrames / (2 * requestedCount)) for the k-th sample, k from 0
ExactIndex(total, nframes, k) == ((2 * k + 1) * total) \div (2 * nframes)

\* the exact position (2k+1) * totalFrames / (2 * requestedCount) is an integer
ExactIsWhole(total, nframes, k) == ((2 * k + 1) * total) % (2 * nframes) = 0

\* C11 as claimed: the k-th frame index the sampling loop seeks to is
\* floor((2k+1) * totalFrames / (2 * requestedCount)), k = 0 .. requestedCount-1.
C11_IndexIsExactFloor ==
    vis.pc \in {"loop", "returned"}
    => \A i \in 1..Len(vis.seeks) :
          vis.seeks[i] = ExactIndex(video.total, vis.args.nframes.num, i - 1)

\* C11 as amended: the k-th index sought is the truncated binary64 running
\* offset; it equals floor((2k+1) * totalFrames / (2 * requestedCount))
\* wherever that exact position is not an integer and is that floor or one
\* less where it is; the first index is floor(interval / 2), and 10 samples
\* of 100 frames are sought at 5, 15, ..., 95.
C11_IndexIsFloatFloor ==
    vis.pc \in {"loop", "returned"}
    => /\ \A i \in 1..Len(vis.seeks) :
            LET exact == ExactIndex(video.total, vis.args.nframes.num, i - 1)
            IN IF ExactIsWhole(video.total, vis.args.nframes.num, i - 1) /\ i > 1
               THEN vis.seeks[i] \in {exact - 1, exact}
               ELSE vis.seeks[i] = exact
       /\ (video.total = 100 /\ vis.args.nframes.num = 10)
            => \A i \in 1..Len(vis.seeks) : vis.seeks[i] = 10 * i - 5

\* 6 samples of 8 frames: the fifth seek is to frame 5, the exact position is 6
C11_Witness ==
    /\ vis.pc = "returned"
    /\ video.total = 8 /\ vis.args.nframes.num = 6
    /\ vis.seeks = <<0, 2, 3, 4, 5, 7>>

\* the indices (from 0) of the profile values strictly above limit
Above(profile, limit) == {i \in 0..(Len(profile) - 1) : profile[i + 1] > limit}

SetMin(S) == CHOOSE x \in S : \A y \in S : x <= y

SetMax(S) == CHOOSE x \in S : \A y \in S : x >= y

RECURSIVE PlanIndices(_, _, _, _)
PlanIndices(interval, offset, count, acc) ==
    IF count = 0 THEN acc
    ELSE PlanIndices(interval, FloatAdd(offset, interval), count - 1,
                     Append(acc, FloatTrunc(offset)))

\* the frame indices of the first count sample positions: the truncations
\* of interval / 2, interval / 2 + interval, ...
SamplePlan(total, nframes, count) ==
    LET interval == FloatDiv(total, nframes)
    IN PlanIndices(interval, FloatHalf(interval), count, <<>>)

\* the cell of the frame at index: the frame, cropped when matting was
\* detected, resized to the cell size
CellOf(index) ==
    LET frame == FrameAt(video, index)
    IN Resize(IF vis.matte_type # 0 THEN crop_image(frame, vis.cropping_bounds) ELSE frame,
              vis.width, vis.height)

\* visualize is in its sampling loop, has left it, or has raised inside it
InSamplingLoop ==
    vis.pc \in {"loop", "returned"} \/ (vis.pc = "raised" /\ Len(vis.seeks) > 0)

\* C13: after k completed passes of the main loop the composite is exactly
\* k cells, the i-th being the resized frame of the i-th sample position;
\* a composite is returned only with requestedCount cells; a failed read at
\* a sampled index raises IOError at once, nothing is returned, and no
\* sample is skipped or retried.
C13_CompositeIsTheSamplesInOrder ==
    InSamplingLoop
    => LET plan == SamplePlan(video.total, vis.args.nframes.num, Len(vis.seeks))
       IN /\ Len(vis.output_image) = vis.finished_frames
          /\ vis.seeks = plan
          /\ \A i \in 1..Len(vis.output_image) : vis.output_image[i] = CellOf(plan[i])
          /\ vis.pc = "returned" => Len(vis.output_image) = vis.args.nframes.num
          /\ (\E i \in 1..Len(vis.seeks) : ~CanRead(video, vis.seeks[i]))
               => /\ vis.pc = "raised" /\ vis.exc = "IOError"
                  /\ ~CanRead(video, vis.seeks[Len(vis.seeks)])
                  /\ Len(vis.output_image) = Len(vis.seeks) - 1
                  /\ Len(vis.output_image) < vis.args.nframes.num

\* a read failed after at least one cell had been added
C13_Witness ==
    /\ vis.pc = "raised" /\ vis.exc = "IOError"
    /\ Len(vis.output_image) >= 1
    /\ Len(vis.seeks) = Len(vis.output_image) + 1

====
